---- MODULE Spec2Model ----
(***************************************************************************)
(* Model of the NestJS discovery example: the Registry that indexes        *)
(* providers by the tag their class carries, the MonitoringService that   *)
(* snapshots the 'repository' category, and composeDecorators.            *)
(*                                                                         *)
(* JavaScript values are encoded as records with the same three fields so *)
(* that any two of them can be compared:                                   *)
(*   property keys / tags : [k : "string" | "symbol" | "undefined", v]     *)
(*   values               : [t : "array" | "undefined" | "function", ...]  *)
(***************************************************************************)
EXTENDS Naturals, Sequences, FiniteSets

VARIABLES
    providers,        \* Registry.providers: the Index
    logged,           \* records handed to the logger by the latest scan
    lastScan,         \* what discoveryService.getProviders() returned to it
    populated,        \* a run of Registry.onModuleInit has completed
    crashed,          \* Registry.onModuleInit raised: start-up is aborted
    repositories,     \* MonitoringService.repositories
    monitoringReady,  \* MonitoringService.onModuleInit has run
    snapPopulated,    \* the Index was populated when the snapshot was taken
    earlyRead,        \* some query was answered from a not yet populated Index
    lateRead,         \* some query was answered from a populated Index
    container,        \* the providers the application was built with
    bootPc,           \* position of bootstrap()
    hooks,            \* onModuleInit hooks still to run, in order
    decorators,       \* the list given to composeDecorators
    calls,            \* decorator calls made by applying the composition
    composed          \* outcome of applying the composition

vars == <<providers, logged, lastScan, populated, crashed, repositories,
          monitoringReady, snapPopulated, earlyRead, lateRead, container, bootPc, hooks,
          decorators, calls, composed>>

readVars == <<earlyRead, lateRead>>
registryVars == <<providers, logged, lastScan, populated, crashed>>
monitoringVars == <<repositories, monitoringReady, snapPopulated>>
bootVars == <<container, bootPc, hooks>>
composeVars == <<decorators, calls, composed>>

\* ------------------------------------------------------------------ bounds

\* Longest provider list handed to one scan.
MaxLen == 2

\* Longest decorator list handed to composeDecorators.
MaxDecorators == 3

\* ------------------------------------------------------- JavaScript values

Str(s) == [k |-> "string", v |-> s]
Sym(s) == [k |-> "symbol", v |-> s]
NoKey == [k |-> "undefined", v |-> ""]

Undefined == [t |-> "undefined", items |-> <<>>, name |-> ""]
Arr(s) == [t |-> "array", items |-> s, name |-> ""]
Builtin(n) == [t |-> "function", items |-> <<>>, name |-> n]

\* ToBoolean of a key or tag: undefined and the empty string are falsy,
\* every symbol and every other string is truthy.
TruthyKey(key) == key.k = "symbol" \/ (key.k = "string" /\ key.v # "")

\* ToBoolean of a value: arrays (even empty) and functions are truthy.
Truthy(val) == val.t # "undefined"

\* Symbol.prototype.toString / String.prototype.toString.
ToString(key) == IF key.k = "symbol" THEN "Symbol(" \o key.v \o ")" ELSE key.v

\* Property names every object literal inherits from Object.prototype.
ProtoKeys == {"constructor", "toString", "valueOf", "hasOwnProperty",
              "isPrototypeOf", "propertyIsEnumerable", "toLocaleString",
              "__proto__"}

\* Canonical array indices among the string keys, with their numeric value.
IndexKeys == {"0", "1", "2"}
IndexValue(s) == CASE s = "0" -> 0 [] s = "1" -> 1 [] s = "2" -> 2

\* An object literal is the sequence of its own [key, val] properties in
\* insertion order; val is the sequence held by the array stored there.
EmptyObject == <<>>

OwnIndex(obj, key) ==
    IF \E i \in 1..Len(obj) : obj[i].key = key
    THEN CHOOSE i \in 1..Len(obj) : obj[i].key = key
    ELSE 0

\* obj[key]: own property, else the inherited Object.prototype member, else
\* undefined.
Get(obj, key) ==
    IF OwnIndex(obj, key) # 0 THEN Arr(obj[OwnIndex(obj, key)].val)
    ELSE IF key.k = "string" /\ key.v \in ProtoKeys THEN Builtin(key.v)
    ELSE Undefined

RECURSIVE SortIndexEntries(_)
SortIndexEntries(s) ==
    IF s = <<>> THEN <<>>
    ELSE LET m == CHOOSE i \in 1..Len(s) :
                    \A j \in 1..Len(s) :
                        IndexValue(s[i].key.v) <= IndexValue(s[j].key.v)
             rest == [i \in 1..(Len(s) - 1) |-> IF i < m THEN s[i] ELSE s[i + 1]]
         IN <<s[m]>> \o SortIndexEntries(rest)

\* OrdinaryOwnPropertyKeys order: array indices ascending, then the other
\* strings in insertion order, then symbols in insertion order.
IsIndexEntry(e) == e.key.k = "string" /\ e.key.v \in IndexKeys
IsNameEntry(e) == e.key.k = "string" /\ e.key.v \notin IndexKeys
IsSymbolEntry(e) == e.key.k = "symbol"
OwnEntries(obj) ==
    SortIndexEntries(SelectSeq(obj, IsIndexEntry))
        \o SelectSeq(obj, IsNameEntry)
        \o SelectSeq(obj, IsSymbolEntry)

\* { ...acc, [key]: items }: the own properties are copied in key order and
\* the computed key is then overwritten in place or added last.
SpreadWith(acc, key, items) ==
    LET copy == OwnEntries(acc)
        i == OwnIndex(copy, key)
    IN IF i # 0
       THEN [copy EXCEPT ![i] = [key |-> key, val |-> items]]
       ELSE Append(copy, [key |-> key, val |-> items])

RECURSIVE Flat(_)
Flat(ss) == IF ss = <<>> THEN <<>> ELSE Head(ss) \o Flat(Tail(ss))

\* Object.values(obj).flat(): string-keyed properties only, in key order.
IsStringEntry(e) == e.key.k = "string"
ObjectValuesFlat(obj) ==
    LET es == SelectSeq(OwnEntries(obj), IsStringEntry)
    IN Flat([i \in 1..Len(es) |-> es[i].val])

\* ------------------------------------------------------------- decorators

\* A class decorator returns its target, nothing (void), or a class that
\* replaces the target; Discover(v) also records v under the registry
\* metadata key of its target.
Injectable == [id |-> "Injectable", returns |-> "void", tag |-> NoKey]
Discover(v) == [id |-> "Discover", returns |-> "target", tag |-> v]
Mixin == [id |-> "Mixin", returns |-> "replacement", tag |-> NoKey]

NoClass == "undefined"

\* decorator(target): what the call hands back. (Reflect.defineMetadata and
\* a class expression both raise a TypeError on a target that is no class;
\* ReduceRight stops there.)
Decorate(decorator, target) ==
    CASE decorator.returns = "target" -> target
      [] decorator.returns = "void" -> NoClass
      [] decorator.returns = "replacement" -> "Mixin(" \o target \o ")"

\* decorators.reduceRight((target, decorator) => decorator(target),
\* originalTarget): the calls made, rightmost decorator first, each on what
\* the call before it returned, and the value handed back at the end.
RECURSIVE ReduceRight(_, _, _)
ReduceRight(ds, target, log) ==
    IF ds = <<>>
    THEN [calls |-> log, result |-> target, threw |-> FALSE]
    ELSE LET n == Len(ds)
             d == ds[n]
             made == Append(log, [decorator |-> d, target |-> target])
         IN IF target = NoClass
            THEN [calls |-> made, result |-> NoClass, threw |-> TRUE]
            ELSE ReduceRight(SubSeq(ds, 1, n - 1), Decorate(d, target), made)

composeDecorators(ds, originalTarget) ==
    ReduceRight(ds, originalTarget, <<>>)

REPOSITORY_PROVIDER == Str("repository")

DiscoverableRepository(target) ==
    composeDecorators(<<Injectable, Discover(REPOSITORY_PROVIDER)>>, target).calls

\* Reflect.getMetadata(REGISTRY_METADATA_KEY, target) after the log: the
\* value of the last Discover applied to that very class, else undefined.
MetadataAfter(log, target) ==
    LET hits == {i \in 1..Len(log) :
                    log[i].target = target /\ log[i].decorator.id = "Discover"}
    IN IF hits = {} THEN NoKey
       ELSE log[CHOOSE i \in hits : \A j \in hits : j <= i].decorator.tag

\* ------------------------------------------------------------- providers

\* The classes a container may hold. FooRepository and BarRepository are the
\* application's own; the others stand for providers tagged with another
\* category, an array-index string, a symbol, the empty string and an
\* Object.prototype member name, and for an untagged provider.
Classes == {"FooRepository", "BarRepository", "MailService", "FirstJob",
            "SymbolPlugin", "BlankTagged", "CtorTagged", "MonitoringService"}

\* The decorator calls made on a class when it is defined.
DefinitionCalls(class) ==
    CASE class \in {"FooRepository", "BarRepository"} -> DiscoverableRepository(class)
      [] class = "MailService" -> <<[decorator |-> Discover(Str("service")), target |-> class]>>
      [] class = "FirstJob" -> <<[decorator |-> Discover(Str("1")), target |-> class]>>
      [] class = "SymbolPlugin" -> <<[decorator |-> Discover(Sym("plugin")), target |-> class]>>
      [] class = "BlankTagged" -> <<[decorator |-> Discover(Str("")), target |-> class]>>
      [] class = "CtorTagged" -> <<[decorator |-> Discover(Str("constructor")), target |-> class]>>
      [] OTHER -> <<[decorator |-> Injectable, target |-> class]>>

\* Registry.getMetadata: Reflect.getMetadata(REGISTRY_METADATA_KEY, metatype).
getMetadata(metatype) == MetadataAfter(DefinitionCalls(metatype), metatype)

NullMetatype == "null"

\* An InstanceWrapper as the DiscoveryService hands it out; a value provider
\* has no metatype.
New(class) == [new |-> class]
Wrapper(class) == [metatype |-> class, instance |-> New(class), name |-> class]
ValueWrapper == [metatype |-> NullMetatype, instance |-> New("Object"), name |-> "CONFIG"]
Wrappers == {Wrapper(c) : c \in Classes} \cup {ValueWrapper}

\* Every provider list of at most MaxLen distinct wrappers.
WrapperSeqs ==
    UNION {{s \in [1..n -> Wrappers] : \A i, j \in 1..n : i # j => s[i] # s[j]}
           : n \in 0..MaxLen}

\* instance.check(): FooRepository and BarRepository return the name of
\* their class; no other class has the method.
CheckOf(instance) ==
    IF instance.new \in {"FooRepository", "BarRepository"} THEN instance.new
    ELSE "TypeError"

\* --------------------------------------------------------------- registry

\* The filter of scanDiscoverableInstanceWrappers.
IsDiscoverable(w) ==
    w.metatype # NullMetatype /\ TruthyKey(getMetadata(w.metatype))

\* Registry.emitDiscoveredEvent: the record handed to the logger.
emitDiscoveredEvent(type, name) ==
    [event |-> "DISCOVERED", type |-> ToString(type), name |-> name]

\* The reduce of scanDiscoverableInstanceWrappers over the filtered wrappers:
\* the event is logged first; (acc[type] || []).concat(instance) raises a
\* TypeError when acc[type] is an inherited Object.prototype member.
RECURSIVE Reduce(_, _, _)
Reduce(ws, acc, events) ==
    IF ws = <<>> THEN [acc |-> acc, events |-> events, threw |-> FALSE]
    ELSE LET w == Head(ws)
             type == getMetadata(w.metatype)
             emitted == Append(events, emitDiscoveredEvent(type, w.name))
             held == Get(acc, type)
         IN IF Truthy(held) /\ held.t # "array"
            THEN [acc |-> acc, events |-> emitted, threw |-> TRUE]
            ELSE Reduce(Tail(ws),
                        SpreadWith(acc, type, held.items \o <<w.instance>>),
                        emitted)

scanDiscoverableInstanceWrappers(wrappers) ==
    Reduce(SelectSeq(wrappers, IsDiscoverable), EmptyObject, <<>>)

\* getProviders without the test of the key: every list, whatever is asked.
getProviders_IgnoresKey(index, key) == Arr(ObjectValuesFlat(index))

\* Registry.getProviders(key): key ? providers[key] : Object.values(..).flat(),
\* then (providers || []).
getProviders(index, key) ==
    LET found == IF TruthyKey(key) THEN Get(index, key)
                 ELSE Arr(ObjectValuesFlat(index))
    IN IF Truthy(found) THEN found ELSE Arr(<<>>)

\* MonitoringService.check over the cached list.
check(repos) == [i \in 1..Len(repos) |-> CheckOf(repos[i])]

\* ------------------------------------------------------------ operations

\* The keys a consumer may ask for; NoKey is the call without an argument.
QueryKeys == {NoKey, REPOSITORY_PROVIDER, Str("service"), Str("1"),
              Sym("plugin"), Str(""), Str("constructor"), Str("unknown")}

\* Every answer of discoveryService.getProviders() with the outcome of
\* this.scanDiscoverableInstanceWrappers on it (tabulated once).
Scans ==
    {[wrappers |-> ws, scan |-> scanDiscoverableInstanceWrappers(ws)] : ws \in WrapperSeqs}

\* Registry.onModuleInit, `wrappers` being the DiscoveryService's answer and
\* `scan` the outcome of the scan of it. The assignment to this.providers is
\* not reached when the scan raises.
Registry_onModuleInit(wrappers, scan) ==
    /\ providers' = IF scan.threw THEN providers ELSE scan.acc
    /\ logged' = scan.events
    /\ lastScan' = wrappers
    /\ populated' = (populated \/ ~scan.threw)
    /\ crashed' = scan.threw

\* MonitoringService.onModuleInit.
MonitoringService_onModuleInit ==
    /\ repositories' = getProviders(providers, REPOSITORY_PROVIDER)
    /\ monitoringReady' = TRUE
    /\ snapPopulated' = populated
    /\ earlyRead' = (earlyRead \/ ~populated)
    /\ lateRead' = (lateRead \/ populated)

\* getProviders emptying the list it hands out.
Registry_getProviders_Draining(key) ==
    /\ providers' = [i \in 1..Len(providers) |->
                        IF providers[i].key = key
                        THEN [key |-> key, val |-> <<>>]
                        ELSE providers[i]]
    /\ earlyRead' = (earlyRead \/ ~populated)
    /\ lateRead' = (lateRead \/ populated)
    /\ UNCHANGED <<logged, lastScan, populated, crashed, monitoringVars>>

\* A consumer's call of Registry.getProviders(key): nothing is assigned.
Registry_getProviders(key) ==
    /\ earlyRead' = (earlyRead \/ ~populated)
    /\ lateRead' = (lateRead \/ populated)
    /\ UNCHANGED <<registryVars, monitoringVars>>

\* A call of MonitoringService.check (MonitoringController.check): the
\* cached list is mapped, nothing is assigned.
MonitoringService_check ==
    /\ earlyRead' = (earlyRead \/ ~snapPopulated)
    /\ lateRead' = (lateRead \/ snapPopulated)
    /\ UNCHANGED <<registryVars, monitoringVars>>

\* ------------------------------------------- the components, any call order

Idle ==
    /\ providers = EmptyObject
    /\ logged = <<>>
    /\ lastScan = <<>>
    /\ populated = FALSE
    /\ crashed = FALSE
    /\ repositories = Arr(<<>>)
    /\ monitoringReady = FALSE
    /\ snapPopulated = FALSE
    /\ earlyRead = FALSE
    /\ lateRead = FALSE

Init ==
    /\ Idle
    /\ container = <<>>
    /\ bootPc = "none"
    /\ hooks = <<>>
    /\ decorators = <<>>
    /\ calls = <<>>
    /\ composed = "none"

\* A population that also refreshes the list the MonitoringService holds.
Populate_LiveView ==
    /\ ~crashed
    /\ \E e \in Scans : Registry_onModuleInit(e.wrappers, e.scan)
    /\ repositories' = IF monitoringReady
                       THEN getProviders(providers', REPOSITORY_PROVIDER)
                       ELSE repositories
    /\ UNCHANGED <<monitoringReady, snapPopulated, readVars, bootVars, composeVars>>

Populate ==
    /\ ~crashed
    /\ \E e \in Scans : Registry_onModuleInit(e.wrappers, e.scan)
    /\ UNCHANGED <<monitoringVars, readVars, bootVars, composeVars>>

Snapshot ==
    /\ ~crashed
    /\ ~monitoringReady
    /\ MonitoringService_onModuleInit
    /\ UNCHANGED <<registryVars, bootVars, composeVars>>

Query ==
    /\ ~crashed
    /\ \E key \in QueryKeys : Registry_getProviders(key)
    /\ UNCHANGED <<bootVars, composeVars>>

Report ==
    /\ ~crashed
    /\ MonitoringService_check
    /\ UNCHANGED <<bootVars, composeVars>>

Next == Populate \/ Snapshot \/ Query \/ Report

Spec == Init /\ [][Next]_vars

\* ------------------------------------------------------ application start

\* The RegistryModule imported by the root module instead of by the
\* MonitoringModule.
Imports_RegistryAtRoot(module) ==
    CASE module = "AppModule" ->
             <<"LoggerModule", "MonitoringModule", "FoobarDataModule", "RegistryModule">>
      [] module = "RegistryModule" -> <<"DiscoveryModule">>
      [] OTHER -> <<>>

\* The @Module imports of the application.
Imports(module) ==
    CASE module = "AppModule" -> <<"LoggerModule", "MonitoringModule", "FoobarDataModule">>
      [] module = "MonitoringModule" -> <<"RegistryModule">>
      [] module = "RegistryModule" -> <<"DiscoveryModule">>
      [] OTHER -> <<>>

\* The providers of a module that implement OnModuleInit.
InitHooks(module) ==
    CASE module = "MonitoringModule" -> <<"MonitoringService">>
      [] module = "RegistryModule" -> <<"Registry">>
      [] OTHER -> <<>>

RootModule == "AppModule"

\* Modules in the order the container registers them (imports, depth first).
RECURSIVE Registered(_)
Registered(module) ==
    <<module>> \o Flat([i \in 1..Len(Imports(module)) |-> Registered(Imports(module)[i])])

ModuleList == Registered(RootModule)
Modules == {ModuleList[i] : i \in 1..Len(ModuleList)}

\* Number of imports between the root module and a module.
RECURSIVE Distance(_)
Distance(module) ==
    IF module = RootModule THEN 0
    ELSE 1 + Distance(CHOOSE m \in Modules :
                          \E i \in 1..Len(Imports(m)) : Imports(m)[i] = module)

\* The hooks in the order NestFactory runs them on app.listen(): module by
\* module, the module farthest from the root first, registration order
\* among modules equally far.
RECURSIVE HooksFrom(_)
HooksFrom(d) ==
    LET AtDistance(m) == Distance(m) = d
        here == SelectSeq(ModuleList, AtDistance)
        mine == Flat([i \in 1..Len(here) |-> InitHooks(here[i])])
    IN IF d = 0 THEN mine ELSE mine \o HooksFrom(d - 1)

HookOrder == HooksFrom(Len(ModuleList))

InitBoot ==
    /\ Idle
    /\ container \in WrapperSeqs
    /\ bootPc = "start"
    /\ hooks = <<>>
    /\ decorators = <<>>
    /\ calls = <<>>
    /\ composed = "none"

\* await NestFactory.create(AppModule): every provider is instantiated.
BootCreate ==
    /\ bootPc = "start"
    /\ bootPc' = "created"
    /\ UNCHANGED <<registryVars, monitoringVars, readVars, container, hooks, composeVars>>

\* app.listen(port) begins with the initialisation of the application.
BootInit ==
    /\ bootPc = "created"
    /\ bootPc' = "init"
    /\ hooks' = HookOrder
    /\ UNCHANGED <<registryVars, monitoringVars, readVars, container, composeVars>>

\* The next onModuleInit hook; a hook that raises rejects bootstrap().
BootHook ==
    /\ bootPc = "init"
    /\ ~crashed
    /\ hooks # <<>>
    /\ hooks' = Tail(hooks)
    /\ \/ /\ Head(hooks) = "Registry"
          /\ \E e \in Scans :
                /\ e.wrappers = container
                /\ Registry_onModuleInit(e.wrappers, e.scan)
          /\ UNCHANGED <<monitoringVars, readVars>>
       \/ /\ Head(hooks) = "MonitoringService"
          /\ MonitoringService_onModuleInit
          /\ UNCHANGED registryVars
    /\ UNCHANGED <<container, bootPc, composeVars>>

\* Every hook has run: the server listens.
BootListen ==
    /\ bootPc = "init"
    /\ ~crashed
    /\ hooks = <<>>
    /\ bootPc' = "listening"
    /\ UNCHANGED <<registryVars, monitoringVars, readVars, container, hooks, composeVars>>

\* GET /api/monitoring: MonitoringController.check.
HttpGet ==
    /\ bootPc \in {"listening", "served"}
    /\ MonitoringService_check
    /\ bootPc' = "served"
    /\ UNCHANGED <<container, hooks, composeVars>>

NextBoot == BootCreate \/ BootInit \/ BootHook \/ BootListen \/ HttpGet

SpecBoot == InitBoot /\ [][NextBoot]_vars

\* ---------------------------------------------------- applying a composition

DecoratorPool == {Injectable, Discover(REPOSITORY_PROVIDER), Discover(Str("service")), Mixin}

DecoratorSeqs == UNION {[1..n -> DecoratorPool] : n \in 0..MaxDecorators}

OriginalTarget == "T"

InitCompose ==
    /\ Idle
    /\ container = <<>>
    /\ bootPc = "none"
    /\ hooks = <<>>
    /\ decorators \in DecoratorSeqs
    /\ calls = <<>>
    /\ composed = "pending"

\* composeDecorators(...decorators)(T).
ApplyComposed ==
    /\ composed = "pending"
    /\ LET outcome == composeDecorators(decorators, OriginalTarget)
       IN /\ calls' = outcome.calls
          /\ composed' = IF outcome.threw THEN "threw" ELSE "returned"
    /\ UNCHANGED <<registryVars, monitoringVars, readVars, bootVars, decorators>>

NextCompose == ApplyComposed

SpecCompose == InitCompose /\ [][NextCompose]_vars

\* ----------------------------------------------------------------- claims

\* What the claims speak of: the entries of a provider list whose type
\* carries a tag (any tag at all, the empty string included), the entries
\* carrying one given tag, and the instances of a list of entries.
TagOf(w) == IF w.metatype = NullMetatype THEN NoKey ELSE getMetadata(w.metatype)
CarriesTag(w) == TagOf(w) # NoKey
InstancesOf(ws) == [i \in 1..Len(ws) |-> ws[i].instance]
Tagged(ws) == SelectSeq(ws, CarriesTag)
TaggedWith(ws, X) == LET Has(w) == TagOf(w) = X IN SelectSeq(ws, Has)
Tags == QueryKeys \ {NoKey}

\* The Index holds what the latest run of onModuleInit built from lastScan.
PopulatedFromLastScan == populated /\ ~crashed

\* C1 (as stated): after the Index was populated from S, getProviders()
\* without a key returns exactly the entries of S whose type carries a tag,
\* each once, in the order of S.
C1_DiscoveryCompleteness ==
    PopulatedFromLastScan =>
        getProviders(providers, NoKey) = Arr(InstancesOf(Tagged(lastScan)))

RECURSIVE SumLen(_, _)
SumLen(index, keys) ==
    IF keys = {} THEN 0
    ELSE LET X == CHOOSE k \in keys : TRUE
         IN Len(getProviders(index, X).items) + SumLen(index, keys \ {X})

\* C2 (as stated): after populate(S), for every tag X getProviders(X) is the
\* subsequence of S whose type carries X; the lists of two tags share no
\* entry, and with the untagged entries they account for all of S.
C2_IndexPartition ==
    PopulatedFromLastScan =>
        /\ \A X \in Tags :
              getProviders(providers, X) = Arr(InstancesOf(TaggedWith(lastScan, X)))
        /\ \A X, Y \in Tags :
              X # Y =>
                  \A i \in 1..Len(getProviders(providers, X).items) :
                      \A j \in 1..Len(getProviders(providers, Y).items) :
                          getProviders(providers, X).items[i]
                              # getProviders(providers, Y).items[j]
        /\ SumLen(providers, Tags) + Len(TaggedWith(lastScan, NoKey)) = Len(lastScan)

\* C5 (as stated): in every state, getProviders(X) of a tag X without
\* members in the Index is an empty sequence, and before population so is
\* getProviders() without a key.
C5_EmptyQueryNeverFails ==
    /\ \A X \in Tags :
          OwnIndex(providers, X) = 0 => getProviders(providers, X) = Arr(<<>>)
    /\ ~populated => getProviders(providers, NoKey) = Arr(<<>>)

RECURSIVE IndexSize(_)
IndexSize(index) ==
    IF index = <<>> THEN 0 ELSE Len(Head(index).val) + IndexSize(Tail(index))

\* C6 (as stated): one run of populate over S logs exactly one DISCOVERED
\* event per entry of S whose type carries a tag, with its tag and name, in
\* scan order, none for an untagged entry, and as many as the resulting
\* Index holds instances.
C6_EventPerTaggedEntry ==
    (populated \/ crashed) =>
        /\ logged = [i \in 1..Len(Tagged(lastScan)) |->
                        [event |-> "DISCOVERED",
                         type |-> ToString(TagOf(Tagged(lastScan)[i])),
                         name |-> Tagged(lastScan)[i].name]]
        /\ Len(logged) = IndexSize(providers)

\* The Index populate(S) builds on a Registry that holds nothing.
FreshIndex(ws) ==
    LET scan == scanDiscoverableInstanceWrappers(ws)
    IN IF scan.threw THEN EmptyObject ELSE scan.acc

\* C7 (as stated): the Index left by populate depends on the list passed to
\* that call alone: it is the Index populate of that list builds on an empty
\* Registry, whatever the Index held before.
C7_RepopulationReplaces ==
    (populated \/ crashed) => providers = FreshIndex(lastScan)

\* C8 (as stated): applying composeDecorators(d1, ..., dn) to T applies
\* every decorator exactly once, rightmost first and leftmost last, each to
\* the class (T, or the class an earlier call put in its place).
C8_CompositionOrder ==
    composed # "pending" =>
        /\ Len(calls) = Len(decorators)
        /\ \A i \in 1..Len(calls) :
              /\ calls[i].decorator = decorators[Len(decorators) + 1 - i]
              /\ calls[i].target # NoClass

\* C3: in every start of the application the Index is populated after the
\* instances exist and before any consumer reads it: before the
\* MonitoringService takes its snapshot and before any check() is served;
\* no query is answered from an Index not yet populated.
C3_StartupOrdering ==
    /\ ~earlyRead
    /\ (populated \/ crashed) => bootPc # "start"
    /\ monitoringReady => (populated /\ snapPopulated)
    /\ bootPc = "served" => (populated /\ monitoringReady)

C3_Witness == bootPc = "served" /\ lateRead /\ populated /\ monitoringReady

\* The report the claim expects of a provider list: check() of every
\* instance whose type is tagged 'repository', in the order of the list.
ExpectedReport(ws) ==
    LET repos == TaggedWith(ws, REPOSITORY_PROVIDER)
    IN [i \in 1..Len(repos) |-> CheckOf(repos[i].instance)]

FooThenBar == <<Wrapper("FooRepository"), Wrapper("BarRepository")>>

\* C4: when the MonitoringService initialises on a Registry populated from
\* S, check() returns check() of every 'repository' instance of S, in the
\* order of S: ["FooRepository", "BarRepository"] for [FooRepository,
\* BarRepository], [] when S holds no such instance.
C4_AggregatorEndToEnd ==
    [][(populated /\ ~monitoringReady /\ monitoringReady') =>
          /\ check(repositories'.items) = ExpectedReport(lastScan)
          /\ lastScan = FooThenBar =>
                check(repositories'.items) = <<"FooRepository", "BarRepository">>
          /\ TaggedWith(lastScan, REPOSITORY_PROVIDER) = <<>> =>
                check(repositories'.items) = <<>>]_vars

C4_Witness ==
    /\ monitoringReady /\ snapPopulated /\ lateRead
    /\ lastScan = FooThenBar
    /\ check(repositories.items) = <<"FooRepository", "BarRepository">>

\* C9: no query changes the Index or the cached list: a step that is not a
\* run of Registry.onModuleInit (the provider list is not scanned anew)
\* leaves the Index as it was, and every getProviders call returns what the
\* same call returned before it; a step that is not
\* MonitoringService.onModuleInit leaves the cached list as it was.
C9_ReadOnlyQueries ==
    [][/\ (lastScan' = lastScan /\ crashed' = crashed) =>
             /\ providers' = providers
             /\ \A key \in QueryKeys :
                   getProviders(providers', key) = getProviders(providers, key)
       /\ monitoringReady' = monitoringReady => repositories' = repositories]_vars

C9_Witness ==
    /\ populated /\ lateRead /\ monitoringReady /\ snapPopulated
    /\ getProviders(providers, NoKey).items # <<>>
    /\ repositories.items # <<>>

\* C10: the cached list is set once, by MonitoringService.onModuleInit, and
\* no later population changes it; a MonitoringService initialised before
\* the Index was populated reports [] in every later state.
C10_SnapshotNeverRefreshed ==
    /\ [][monitoringReady => repositories' = repositories]_vars
    /\ []((monitoringReady /\ ~snapPopulated) => check(repositories.items) = <<>>)

C10_Witness ==
    /\ monitoringReady /\ ~snapPopulated
    /\ populated
    /\ getProviders(providers, REPOSITORY_PROVIDER).items # <<>>
    /\ check(repositories.items) = <<>>

====
